---------------------------- MODULE Spec2Model ----------------------------
(***************************************************************************)
(* Text Relation Map Visualizer: the React client (frontend/src/App.js,    *)
(* with the Graph component) and the message protocol it speaks.           *)
(*                                                                         *)
(* Three state machines share this module:                                 *)
(*   Spec      the App component and the Graph effect's WebSocket life     *)
(*             cycle (form handlers, open/close/error events, cleanup);    *)
(*   SpecGraph the Graph component's onmessage handler applied to any      *)
(*             protocol message;                                           *)
(*   SpecSync  several clients and the session broadcaster.  The           *)
(*             broadcaster (backend/main.py) is modelled from its          *)
(*             specification, spec.md sections 4 and 6.                    *)
(***************************************************************************)
EXTENDS Naturals, Sequences, FiniteSets

VARIABLES
    \* ---- App component (App.js 6-9)
    inputText,      \* useState('') : the textarea's text, a sequence of characters
    isConnected,    \* useState(false) : drives the connection indicator
    wsRef,          \* useRef(null) : Null or the socket last stored by the Graph effect
    \* ---- Graph effect and the sockets it creates (App.js 267-340)
    effectWs,       \* the `ws` captured by the mounted effect's closure, Null when no effect is mounted
    readyState,     \* WebSocket.readyState of every socket of the pool
    cleaned,        \* history: the sockets whose effect's cleanup has run
    nSent,          \* the number of calls of ws.send so far
    lastSent,       \* the latest call of ws.send: the socket and the frame
    lastOp,         \* history: the form handler run by the latest step, "none" for any other step
    \* ---- Graph onmessage handler (App.js 285-330)
    cy,             \* the elements of cyRef.current
    lastMsg,        \* history: the type of the message handled last
    \* ---- session broadcaster and its clients
    graph,          \* the shared graph
    live,           \* the connections the broadcaster holds
    peer,           \* each client's connection: "new", "open" or "closed"
    down,           \* server -> client frames in flight, per client, FIFO
    up,             \* client -> server frames in flight, per client, FIFO
    view,           \* each client's cyRef.current elements
    lastFrame,      \* history: the type of the client frame the broadcaster handled last
    nText,          \* text frames submitted so far
    nClear          \* clear frames submitted so far

appVars   == <<inputText, isConnected, wsRef, effectWs, readyState, cleaned, nSent, lastSent, lastOp>>
graphVars == <<cy, lastMsg>>
syncVars  == <<graph, live, peer, down, up, view, lastFrame, nText, nClear>>
vars      == <<appVars, graphVars, syncVars>>

\* useRef(null) (App.js 8); sockets are numbered from 1
Null == 0

-----------------------------------------------------------------------------
(* Bounds of the model *)

MaxLen     == 2     \* characters in the textarea
MaxSockets == 2     \* sockets the Graph effect creates (one remount)
MaxSent    == 2     \* calls of ws.send
MaxElems   == 3     \* elements in a message, nodes and edges together
MaxExtract == 2     \* entities and relations extracted from one text, together
MaxTexts   == 2     \* text frames the clients submit
MaxClears  == 1     \* clear frames the clients submit

-----------------------------------------------------------------------------
(* Text: String.prototype.trim and truthiness of a string (App.js 14, 72) *)

Whitespace == {" "}
Chars      == {" ", "a"}

RECURSIVE TextsOfLen(_)
TextsOfLen(n) ==
    IF n = 0 THEN {<<>>}
    ELSE {Append(t, ch) : t \in TextsOfLen(n - 1), ch \in Chars}

InputTexts == UNION {TextsOfLen(n) : n \in 0..MaxLen}

RECURSIVE TrimStart(_)
TrimStart(t) ==
    IF t # <<>> /\ Head(t) \in Whitespace THEN TrimStart(Tail(t)) ELSE t

RECURSIVE TrimEnd(_)
TrimEnd(t) ==
    IF t # <<>> /\ t[Len(t)] \in Whitespace
    THEN TrimEnd(SubSeq(t, 1, Len(t) - 1))
    ELSE t

\* inputText.trim()
Trim(t) == TrimEnd(TrimStart(t))

\* a string is truthy iff it is not empty
Truthy(t) == t # <<>>

-----------------------------------------------------------------------------
(* Frames the client sends (App.js 16-19, 28-30) *)

TextFrame(t) == [type |-> "text", text |-> t]
ClearFrame   == [type |-> "clear"]

-----------------------------------------------------------------------------
(* App component and Graph effect *)

Sockets == 1..MaxSockets

\* the browsers of SpecSync, each running one instance of the client
Clients == {"c1", "c2"}

\* wsRef.current && wsRef.current.readyState === WebSocket.OPEN (App.js 14, 27)
SocketOpen == wsRef # Null /\ readyState[wsRef] = "OPEN"

\* the submit button's disabled attribute (App.js 72)
SubmitDisabled == ~isConnected \/ ~Truthy(Trim(inputText))

\* the clear button's disabled attribute (App.js 80)
ClearDisabled == ~isConnected

\* wsRef.current.send(JSON.stringify(frame)) (App.js 16, 28)
Send(frame) ==
    /\ nSent' = nSent + 1
    /\ lastSent' = [ws |-> wsRef, frame |-> frame]

\* textarea onChange: setInputText(e.target.value) (App.js 63)
OnChange(t) ==
    /\ inputText' = t
    /\ lastOp' = "none"
    /\ UNCHANGED <<isConnected, wsRef, effectWs, readyState, cleaned, nSent, lastSent>>

\* a faulty condition: the text is tested without trim()
SubmitSendsNoTrim == Truthy(inputText) /\ SocketOpen

\* the condition of handleSubmit's if (App.js 14)
SubmitSends == Truthy(Trim(inputText)) /\ SocketOpen

\* a faulty frame: the trimmed text is sent
SubmitFrameTrimmed == TextFrame(Trim(inputText))

\* the frame handleSubmit sends (App.js 16-19)
SubmitFrame == TextFrame(inputText)

\* handleSubmit (App.js 11-24)
HandleSubmit ==
    /\ nSent < MaxSent
    /\ lastOp' = "handleSubmit"
    /\ IF SubmitSends
       THEN /\ Send(SubmitFrame)
            /\ inputText' = <<>>
       ELSE UNCHANGED <<nSent, lastSent, inputText>>
    /\ UNCHANGED <<isConnected, wsRef, effectWs, readyState, cleaned>>

\* a faulty condition: readyState is not tested
ClearSendsAnyState == wsRef # Null

\* the condition of handleClear's if (App.js 27)
ClearSends == SocketOpen

\* handleClear (App.js 26-32)
HandleClear ==
    /\ nSent < MaxSent
    /\ lastOp' = "handleClear"
    /\ IF ClearSends
       THEN Send(ClearFrame)
       ELSE UNCHANGED <<nSent, lastSent>>
    /\ UNCHANGED <<inputText, isConnected, wsRef, effectWs, readyState, cleaned>>

\* Graph useEffect body: new WebSocket(...), handlers, wsRef.current = ws
\* (App.js 267-332).  The socket starts CONNECTING.
EffectRun ==
    /\ effectWs = Null
    /\ \E s \in Sockets :
        /\ readyState[s] = "NONE"
        /\ \A r \in Sockets : r < s => readyState[r] # "NONE"
        /\ readyState' = [readyState EXCEPT ![s] = "CONNECTING"]
        /\ wsRef' = s
        /\ effectWs' = s
    /\ lastOp' = "none"
    /\ UNCHANGED <<inputText, isConnected, cleaned, nSent, lastSent>>

\* what the cleanup does to the socket's readyState (App.js 336-338):
\* ws.close() only when the socket is OPEN; close() moves it to CLOSING
CleanupState(rs) == IF rs = "OPEN" THEN "CLOSING" ELSE rs

\* Graph useEffect cleanup (App.js 335-339); wsRef.current is left as it is
EffectCleanup ==
    /\ effectWs # Null
    /\ readyState' = [readyState EXCEPT ![effectWs] = CleanupState(@)]
    /\ cleaned' = cleaned \cup {effectWs}
    /\ effectWs' = Null
    /\ lastOp' = "none"
    /\ UNCHANGED <<inputText, isConnected, wsRef, nSent, lastSent>>

\* what ws.onopen, ws.onclose and ws.onerror pass to onConnectionChange
\* (App.js 272, 277, 282)
OnOpenValue  == TRUE
OnErrorValue == FALSE

\* a faulty onclose: the indicator is left as it is
OnCloseValueStale == isConnected

OnCloseValue == FALSE

\* the connection is established: readyState becomes OPEN and ws.onopen
\* runs (App.js 270-273)
OnOpen(s) ==
    /\ readyState[s] = "CONNECTING"
    /\ readyState' = [readyState EXCEPT ![s] = "OPEN"]
    /\ isConnected' = OnOpenValue
    /\ lastOp' = "none"
    /\ UNCHANGED <<inputText, wsRef, effectWs, cleaned, nSent, lastSent>>

\* the closing handshake starts (the server closes, or close() was called
\* and is in progress): readyState becomes CLOSING and no event fires
ClosingStarted(s) ==
    /\ readyState[s] = "OPEN"
    /\ readyState' = [readyState EXCEPT ![s] = "CLOSING"]
    /\ lastOp' = "none"
    /\ UNCHANGED <<inputText, isConnected, wsRef, effectWs, cleaned, nSent, lastSent>>

\* the connection is closed: readyState becomes CLOSED and ws.onclose runs
\* (App.js 275-278)
OnClose(s) ==
    /\ readyState[s] \in {"CONNECTING", "OPEN", "CLOSING"}
    /\ readyState' = [readyState EXCEPT ![s] = "CLOSED"]
    /\ isConnected' = OnCloseValue
    /\ lastOp' = "none"
    /\ UNCHANGED <<inputText, wsRef, effectWs, cleaned, nSent, lastSent>>

\* the connection fails: readyState becomes CLOSED and ws.onerror runs
\* (App.js 280-283); the close event that follows in the same task runs
\* ws.onclose, which passes the same value
OnError(s) ==
    /\ readyState[s] \in {"CONNECTING", "OPEN", "CLOSING"}
    /\ readyState' = [readyState EXCEPT ![s] = "CLOSED"]
    /\ isConnected' = OnErrorValue
    /\ lastOp' = "none"
    /\ UNCHANGED <<inputText, wsRef, effectWs, cleaned, nSent, lastSent>>

Init ==
    /\ inputText = <<>>
    /\ isConnected = FALSE
    /\ wsRef = Null
    /\ effectWs = Null
    /\ readyState = [s \in Sockets |-> "NONE"]
    /\ cleaned = {}
    /\ nSent = 0
    /\ lastSent = [ws |-> Null, frame |-> [type |-> "none"]]
    /\ lastOp = "none"
    /\ cy = {}       \* cytoscape({...}) is created with no elements (App.js 143)
    /\ lastMsg = "none"
    /\ graph = {}
    /\ live = {}
    /\ peer = [c \in Clients |-> "new"]
    /\ down = [c \in Clients |-> <<>>]
    /\ up = [c \in Clients |-> <<>>]
    /\ view = [c \in Clients |-> {}]
    /\ lastFrame = "none"
    /\ nText = 0
    /\ nClear = 0

Next ==
    \/ (\E t \in InputTexts : OnChange(t)) /\ UNCHANGED <<graphVars, syncVars>>
    \/ HandleSubmit /\ UNCHANGED <<graphVars, syncVars>>
    \/ HandleClear /\ UNCHANGED <<graphVars, syncVars>>
    \/ EffectRun /\ UNCHANGED <<graphVars, syncVars>>
    \/ EffectCleanup /\ UNCHANGED <<graphVars, syncVars>>
    \/ (\E s \in Sockets : OnOpen(s)) /\ UNCHANGED <<graphVars, syncVars>>
    \/ (\E s \in Sockets : ClosingStarted(s)) /\ UNCHANGED <<graphVars, syncVars>>
    \/ (\E s \in Sockets : OnClose(s)) /\ UNCHANGED <<graphVars, syncVars>>
    \/ (\E s \in Sockets : OnError(s)) /\ UNCHANGED <<graphVars, syncVars>>

Spec == Init /\ [][Next]_vars

-----------------------------------------------------------------------------
(* Graph elements and server -> client messages (spec.md section 6) *)

NodeIds  == {"n1", "n2"}
EdgeIds  == {"e1", "e2"}
NodeData == {[label |-> "John", type |-> "PERSON"], [label |-> "john", type |-> "ORG"]}

\* {"data": {"id", "label", "type"}}
NodeElems ==
    {[group |-> "nodes", id |-> i, label |-> d.label, type |-> d.type] :
        i \in NodeIds, d \in NodeData}

\* the <<source, target>> pairs of the edges, a loop included
EdgeEnds == {<<"n1", "n2">>, <<"n2", "n1">>, <<"n1", "n1">>}

\* {"data": {"id", "source", "target", "label"}}
EdgeElems ==
    {[group |-> "edges", id |-> i, source |-> p[1], target |-> p[2], label |-> "bought"] :
        i \in EdgeIds, p \in EdgeEnds}

RECURSIVE SeqsOfLen(_, _)
SeqsOfLen(S, n) ==
    IF n = 0 THEN {<<>>}
    ELSE {Append(q, x) : q \in SeqsOfLen(S, n - 1), x \in S}

\* the pairs of a nodes array and an edges array of at most n elements together
Batches(n) ==
    UNION {{[nodes |-> ns, edges |-> es] :
                ns \in SeqsOfLen(NodeElems, k[1]), es \in SeqsOfLen(EdgeElems, k[2])} :
           k \in {p \in (0..n) \X (0..n) : p[1] + p[2] <= n}}

GraphMsg(t, d) == [type |-> t, data |-> d]
ClearMsg == [type |-> "clear"]

Messages ==
    {GraphMsg(t, d) : t \in {"initial", "update"}, d \in Batches(MaxElems)}
    \cup {ClearMsg}

-----------------------------------------------------------------------------
(* Graph component: ws.onmessage (App.js 285-330) *)

\* cyRef.current.getElementById(id) (App.js 294, 301): the elements with that id
GetElementById(g, id) == {e \in g : e.id = id}

\* cyRef.current.add(ele) (App.js 295, 302).  Cytoscape creates no second
\* element with an id in use, and no edge whose source or target is not the
\* id of an element of the graph.
CyAdd(g, ele) ==
    IF GetElementById(g, ele.id) # {} THEN g
    ELSE IF ele.group = "edges"
            /\ (GetElementById(g, ele.source) = {} \/ GetElementById(g, ele.target) = {})
         THEN g
         ELSE g \cup {ele}

\* a faulty body: the data of an element already present is overwritten
AddOrReplace(g, ele) ==
    IF ele.group = "edges"
       /\ (GetElementById(g, ele.source) = {} \/ GetElementById(g, ele.target) = {})
    THEN g
    ELSE (g \ GetElementById(g, ele.id)) \cup {ele}

\* the body of both forEach loops (App.js 294-296, 301-303)
AddIfAbsent(g, ele) ==
    IF GetElementById(g, ele.id) # {} THEN g ELSE CyAdd(g, ele)

\* nodes.forEach(...) / edges.forEach(...) (App.js 293-297, 300-304)
RECURSIVE ForEachAdd(_, _)
ForEachAdd(g, eles) ==
    IF eles = <<>> THEN g
    ELSE ForEachAdd(AddIfAbsent(g, Head(eles)), Tail(eles))

\* a faulty order: the edges are added before the nodes
AddEdgesFirst(g, data) == ForEachAdd(ForEachAdd(g, data.edges), data.nodes)

\* the initial/update branch: nodes first, then edges (App.js 289-304)
AddElements(g, data) == ForEachAdd(ForEachAdd(g, data.nodes), data.edges)

\* a faulty clear: only the nodes are removed
RemoveNodesOnly(g) == {e \in g : e.group = "edges"}

\* cyRef.current.elements().remove() (App.js 327)
RemoveElements(g) == {}

\* the whole handler as a function of the graph and the parsed message
ProcessMessage(g, m) ==
    IF m.type = "initial" \/ m.type = "update" THEN AddElements(g, m.data)
    ELSE IF m.type = "clear" THEN RemoveElements(g)
    ELSE g

\* ws.onmessage on the Graph component's own cytoscape instance
OnMessage(m) ==
    /\ cy' = ProcessMessage(cy, m)
    /\ lastMsg' = m.type

NextGraph ==
    (\E m \in Messages : OnMessage(m)) /\ UNCHANGED <<appVars, syncVars>>

SpecGraph == Init /\ [][NextGraph]_vars

-----------------------------------------------------------------------------
(* Properties of the onmessage handler, under SpecGraph *)

\* C1: re-applying a graph message is idempotent: in every reachable graph,
\* handling any initial or update message twice in a row displays the same
\* elements as handling it once; and the graph holds at most one element
\* per id.
C1_MergeIdempotent ==
    /\ \A m \in Messages :
          ProcessMessage(ProcessMessage(cy, m), m) = ProcessMessage(cy, m)
    /\ \A e1 \in cy, e2 \in cy : e1.id = e2.id => e1 = e2

\* graph messages have been handled and the graph displays two nodes and an
\* edge, so that some message repeats displayed ids
C1_Witness ==
    /\ lastMsg \in {"initial", "update"}
    /\ \E e \in cy : e.group = "edges"
    /\ Cardinality({e \in cy : e.group = "nodes"}) = 2

C6_ElementsImmutable ==
    [][lastMsg' # "clear" =>
        /\ cy \subseteq cy'
        /\ \A e \in cy, f \in cy' : f.id = e.id => f = e]_vars

\* after an update, the graph displays two nodes with different data and an
\* edge, each of which later messages offer again with other data
C6_Witness ==
    /\ lastMsg = "update"
    /\ \E e \in cy : e.group = "nodes" /\ e.label = "John"
    /\ \E e \in cy : e.group = "nodes" /\ e.label = "john"
    /\ \E e \in cy : e.group = "edges"

-----------------------------------------------------------------------------
(* Session broadcaster and graph merge function (spec.md 4.1, 4.2, 6), and  *)
(* the clients connected to it                                              *)

Present(g) == {e.id : e \in g}
NodesOf(g) == {e \in g : e.group = "nodes"}
EdgesOf(g) == {e \in g : e.group = "edges"}

\* a set of elements as an array, in some fixed order
RECURSIVE ToArray(_)
ToArray(S) ==
    IF S = {} THEN <<>>
    ELSE LET x == CHOOSE y \in S : TRUE IN <<x>> \o ToArray(S \ {x})

\* the full current graph, as the data of an initial message
FullGraph(g) == [nodes |-> ToArray(NodesOf(g)), edges |-> ToArray(EdgesOf(g))]

\* the extracted entities whose id is not known, each id once
RECURSIVE NewEntities(_, _)
NewEntities(known, ents) ==
    IF ents = <<>> THEN <<>>
    ELSE IF Head(ents).id \in known
         THEN NewEntities(known, Tail(ents))
         ELSE <<Head(ents)>> \o NewEntities(known \cup {Head(ents).id}, Tail(ents))

\* the extracted relations whose id is not known and whose endpoints are
\* both among the entity ids `nodeIds`, each id once
RECURSIVE NewRelations(_, _, _)
NewRelations(known, nodeIds, rels) ==
    IF rels = <<>> THEN <<>>
    ELSE IF Head(rels).id \in known
            \/ Head(rels).source \notin nodeIds
            \/ Head(rels).target \notin nodeIds
         THEN NewRelations(known, nodeIds, Tail(rels))
         ELSE <<Head(rels)>> \o NewRelations(known \cup {Head(rels).id}, nodeIds, Tail(rels))

Range(q) == {q[i] : i \in 1..Len(q)}

\* Graph Merge Function: the delta of an extraction against the graph
Merge(g, ex) ==
    LET ents == NewEntities(Present(g), ex.nodes)
        ids  == Present(NodesOf(g)) \cup Present(Range(ents))
    IN [nodes |-> ents, edges |-> NewRelations(Present(g), ids, ex.edges)]

\* the NLP collaborator's possible results for a text
Extractions == Batches(MaxExtract)

\* send msg to every live connection; a connection found closed is dropped
Broadcast(msg) ==
    /\ down' = [c \in Clients |->
                  IF c \in live /\ peer[c] = "open" THEN Append(down[c], msg) ELSE down[c]]
    /\ live' = {c \in live : peer[c] = "open"}

\* the Graph effect opens the connection (App.js 268); the broadcaster
\* accepts it and sends the full current graph as the initial message
Accept(c) ==
    /\ peer[c] = "new"
    /\ peer' = [peer EXCEPT ![c] = "open"]
    /\ live' = live \cup {c}
    /\ down' = [down EXCEPT ![c] = <<GraphMsg("initial", FullGraph(graph))>>]
    /\ UNCHANGED <<graph, up, view, lastFrame, nText, nClear>>

\* client c types t and submits it with its socket OPEN (App.js 11-24)
PeerSubmit(c, t) ==
    /\ nText < MaxTexts
    /\ peer[c] = "open"
    /\ Truthy(Trim(t))
    /\ up' = [up EXCEPT ![c] = Append(@, TextFrame(t))]
    /\ nText' = nText + 1
    /\ UNCHANGED <<graph, live, peer, down, view, lastFrame, nClear>>

\* client c clicks Clear Map with its socket OPEN (App.js 26-32)
PeerClear(c) ==
    /\ nClear < MaxClears
    /\ peer[c] = "open"
    /\ up' = [up EXCEPT ![c] = Append(@, ClearFrame)]
    /\ nClear' = nClear + 1
    /\ UNCHANGED <<graph, live, peer, down, view, lastFrame, nText>>

\* client c's ws.onmessage handles the next frame (App.js 285-330)
PeerOnMessage(c) ==
    /\ peer[c] = "open"
    /\ down[c] # <<>>
    /\ view' = [view EXCEPT ![c] = ProcessMessage(@, Head(down[c]))]
    /\ down' = [down EXCEPT ![c] = Tail(@)]
    /\ UNCHANGED <<graph, live, peer, up, lastFrame, nText, nClear>>

\* client c's connection closes; the frames still on their way to it are lost
PeerClose(c) ==
    /\ peer[c] = "open"
    /\ peer' = [peer EXCEPT ![c] = "closed"]
    /\ down' = [down EXCEPT ![c] = <<>>]
    /\ UNCHANGED <<graph, live, up, view, lastFrame, nText, nClear>>

\* the broadcaster handles a text frame of connection c: extraction, merge,
\* and an update broadcast when the delta is not empty
ServerText(c) ==
    /\ c \in live
    /\ up[c] # <<>>
    /\ Head(up[c]).type = "text"
    /\ up' = [up EXCEPT ![c] = Tail(@)]
    /\ IF ~Truthy(Trim(Head(up[c]).text))
       THEN UNCHANGED <<graph, live, down, lastFrame>>
       ELSE \E ex \in Extractions :
              LET delta == Merge(graph, ex) IN
              /\ lastFrame' = "text"
              /\ graph' = graph \cup Range(delta.nodes) \cup Range(delta.edges)
              /\ IF delta.nodes # <<>> \/ delta.edges # <<>>
                 THEN Broadcast(GraphMsg("update", delta))
                 ELSE UNCHANGED <<live, down>>
    /\ UNCHANGED <<peer, view, nText, nClear>>

\* the broadcaster handles a clear frame of connection c
ServerClear(c) ==
    /\ c \in live
    /\ up[c] # <<>>
    /\ Head(up[c]).type = "clear"
    /\ up' = [up EXCEPT ![c] = Tail(@)]
    /\ lastFrame' = "clear"
    /\ graph' = {}
    /\ Broadcast(ClearMsg)
    /\ UNCHANGED <<peer, view, nText, nClear>>

\* the broadcaster's receive loop for connection c ends: c has closed and
\* its frames have all been handled
ServerDrop(c) ==
    /\ c \in live
    /\ peer[c] = "closed"
    /\ up[c] = <<>>
    /\ live' = live \ {c}
    /\ UNCHANGED <<graph, peer, down, up, view, lastFrame, nText, nClear>>

SyncTexts == {<<"a">>}

NextSync ==
    \/ (\E c \in Clients : Accept(c)) /\ UNCHANGED <<appVars, graphVars>>
    \/ (\E c \in Clients, t \in SyncTexts : PeerSubmit(c, t)) /\ UNCHANGED <<appVars, graphVars>>
    \/ (\E c \in Clients : PeerClear(c)) /\ UNCHANGED <<appVars, graphVars>>
    \/ (\E c \in Clients : PeerOnMessage(c)) /\ UNCHANGED <<appVars, graphVars>>
    \/ (\E c \in Clients : PeerClose(c)) /\ UNCHANGED <<appVars, graphVars>>
    \/ (\E c \in Clients : ServerText(c)) /\ UNCHANGED <<appVars, graphVars>>
    \/ (\E c \in Clients : ServerClear(c)) /\ UNCHANGED <<appVars, graphVars>>
    \/ (\E c \in Clients : ServerDrop(c)) /\ UNCHANGED <<appVars, graphVars>>

SpecSync == Init /\ [][NextSync]_vars

\* a client that has handled every frame sent to it
Drained(c) == peer[c] = "open" /\ c \in live /\ down[c] = <<>>

\* C5: all clients observe the same graph: once a client has handled its
\* initial message and every broadcast sent after it, in order, the ids it
\* displays are the ids of the shared graph, and so of every other such
\* client.
C5_ClientsObserveSharedGraph ==
    /\ \A c \in Clients : Drained(c) => Present(view[c]) = Present(graph)
    /\ \A c \in Clients, d \in Clients :
          (Drained(c) /\ Drained(d)) => Present(view[c]) = Present(view[d])

\* two clients have handled every frame of two texts and display the shared
\* graph, which holds an edge
C5_Witness ==
    /\ \A c \in Clients : Drained(c) /\ view[c] # {}
    /\ nText = MaxTexts
    /\ up = [c \in Clients |-> <<>>]
    /\ EdgesOf(graph) # {}

\* C4: clear empties the graph: right after a client handles a clear message
\* it displays no element; and the initial message of a connection accepted
\* after a clear, with no text handled in between, carries no nodes and no
\* edges, so that client's graph stays empty.
C4_ClearEmptiesGraph ==
    [][\A c \in Clients :
        /\ (PeerOnMessage(c) /\ Head(down[c]).type = "clear") => view'[c] = {}
        /\ (Accept(c) /\ lastFrame = "clear") =>
              /\ down'[c] = <<GraphMsg("initial", [nodes |-> <<>>, edges |-> <<>>])>>
              /\ ProcessMessage(view[c], Head(down'[c])) = {}]_vars

\* after a clear, one client has handled it and displays nothing while the
\* other still displays nodes and an edge with the clear message next in line
C4_Witness ==
    /\ lastFrame = "clear"
    /\ \E c \in Clients, d \in Clients :
          /\ Drained(c) /\ view[c] = {}
          /\ peer[d] = "open" /\ down[d] # <<>> /\ Head(down[d]) = ClearMsg
          /\ EdgesOf(view[d]) # {}

-----------------------------------------------------------------------------
(* Properties of the App component and the Graph effect, under Spec *)

\* the state of the component other than the history variable lastOp
appState == <<inputText, isConnected, wsRef, effectWs, readyState, cleaned, nSent, lastSent>>

\* C3: submitting a text that is empty or only whitespace is a no-op:
\* handleSubmit sends no frame and leaves the input text as it is, whatever
\* the state of the socket.
C3_BlankSubmitIsNoOp ==
    [][(lastOp' = "handleSubmit" /\ ~Truthy(Trim(inputText)))
        => (nSent' = nSent /\ lastSent' = lastSent /\ inputText' = inputText)]_vars

\* handleSubmit has just run on a whitespace-only text with the socket OPEN,
\* and nothing was sent
C3_Witness ==
    /\ lastOp = "handleSubmit"
    /\ inputText # <<>>
    /\ Trim(inputText) = <<>>
    /\ SocketOpen
    /\ nSent = 0

\* C7 as stated: whenever isConnected is true, the socket held in
\* wsRef.current is OPEN.
C7_ConnectedImpliesRefOpen ==
    isConnected => (wsRef # Null /\ readyState[wsRef] = "OPEN")

SocketsCreated == {s \in Sockets : readyState[s] # "NONE"}

\* C7 amended: whenever isConnected is true, some socket the component
\* created is OPEN or CLOSING; and while the component has created one
\* socket only, that socket is wsRef.current.
C7_ConnectedImpliesSomeSocketUp ==
    isConnected =>
        /\ \E s \in SocketsCreated : readyState[s] \in {"OPEN", "CLOSING"}
        /\ Cardinality(SocketsCreated) = 1 =>
              (wsRef \in SocketsCreated /\ readyState[wsRef] \in {"OPEN", "CLOSING"})

\* the indicator shows Connected while wsRef.current is still CONNECTING:
\* the socket of an earlier effect run has opened after a remount
C7_Witness ==
    /\ isConnected
    /\ wsRef # Null
    /\ readyState[wsRef] = "CONNECTING"
    /\ \E s \in cleaned : readyState[s] = "OPEN"

\* C8: the client never sends on a socket that is not OPEN: a frame is sent
\* only on wsRef.current and only when it is OPEN, and handleSubmit and
\* handleClear change nothing when it is not.
C8_SendOnlyWhenOpen ==
    [][/\ (nSent' # nSent \/ lastSent' # lastSent) =>
            /\ SocketOpen
            /\ nSent' = nSent + 1
            /\ lastSent'.ws = wsRef
       /\ (lastOp' \in {"handleSubmit", "handleClear"} /\ ~SocketOpen)
            => UNCHANGED appState]_vars

\* handleClear has just run with its button enabled by a stale isConnected
\* and the socket no longer OPEN; nothing was sent
C8_Witness ==
    /\ lastOp = "handleClear"
    /\ ~ClearDisabled
    /\ wsRef # Null
    /\ readyState[wsRef] \in {"CLOSING", "CONNECTING"}
    /\ nSent = 0

\* C9 as stated: once the effect's cleanup has run, the socket that effect
\* created is CLOSING or CLOSED, whatever state it was in; so at most one
\* socket of the component is OPEN at a time.
C9_CleanedSocketIsClosed ==
    /\ \A s \in cleaned : readyState[s] \in {"CLOSING", "CLOSED"}
    /\ Cardinality({s \in Sockets : readyState[s] = "OPEN"}) <= 1

\* C10: handleSubmit clears the input iff it sent a text frame: with a
\* non-blank text and the socket OPEN it sends exactly one frame
\* {type: 'text', text: <the input as typed>} and resets the input to the
\* empty string; otherwise it sends nothing and leaves the input as it is.
C10_SubmitClearsIffSent ==
    [][lastOp' = "handleSubmit" =>
        IF Trim(inputText) # <<>> /\ wsRef # Null /\ readyState[wsRef] = "OPEN"
        THEN /\ nSent' = nSent + 1
             /\ lastSent' = [ws |-> wsRef, frame |-> [type |-> "text", text |-> inputText]]
             /\ inputText' = <<>>
        ELSE /\ nSent' = nSent
             /\ lastSent' = lastSent
             /\ inputText' = inputText]_vars

\* handleSubmit has just sent a text with surrounding whitespace, untrimmed,
\* and cleared the input
C10_Witness ==
    /\ lastOp = "handleSubmit"
    /\ inputText = <<>>
    /\ nSent = 1
    /\ lastSent.frame.type = "text"
    /\ Trim(lastSent.frame.text) # lastSent.frame.text

=============================================================================
